---- MODULE Spec2Model ----
(***************************************************************************)
(* Currency shop of fdyst/Auto-dc: balance ledger, identity mapping,       *)
(* product catalog, stock ledger and the purchase path.                    *)
(*                                                                         *)
(* The store is the SQLite schema of database.py.  Every service method    *)
(* is a function from the store (and the balance cache) to a new store     *)
(* and a return value; an action applies one method, or one step of the    *)
(* coroutine process_purchase between two of its await points.             *)
(***************************************************************************)
EXTENDS Integers, Sequences, FiniteSets, TLC

VARIABLES
    users,          \* table users: handle -> [wl, dl, bgl]
    user_growid,    \* table user_growid: discord_id -> handle
    products,       \* table products: code -> [price]
    stock,          \* table stock: id -> row
    stock_seq,      \* AUTOINCREMENT counter of stock
    transactions,   \* table transactions, in insertion order
    cache,          \* BalanceManagerService._cache
    tasks,          \* the process_purchase coroutines
    reported,       \* history: per handle, the sum of the deltas of the
                    \* update_balance calls that returned without raising
    calc,           \* two Balance objects, the last Balance method called on
                    \* them and what it returned
    conns,          \* the get_connection calls in progress
    reset           \* the resetuser command in progress

vars == <<users, user_growid, products, stock, stock_seq, transactions, cache, tasks,
          reported, calc, conns, reset>>

(***************************************************************************)
(* Bounds of the model                                                     *)
(***************************************************************************)
MaxTx == 3
MaxTotal == 300
MaxStock == 2
MaxUnit == 2
MaxBatch == 2
MaxRetries == 3

(***************************************************************************)
(* Input sets                                                              *)
(***************************************************************************)
DiscordIds == {1, 2}
GrowIds == {"AL", "al", "BOB"}
Codes == {"SWORD", "sword"}
Contents == {"c1"}
Prices == {100, -100}
Quantities == {-1, 1, 2}
Tasks == {1, 2}
Deltas == {<<150, 0, 0>>, <<-100, 0, 0>>, <<0, -1, 0>>}
Buyer == [d \in DiscordIds |-> IF d = 1 THEN "AL" ELSE "BOB"]
Sword == "SWORD"
Credit == <<150, 0, 0>>

(***************************************************************************)
(* constants.py                                                            *)
(***************************************************************************)
STATUS_AVAILABLE == "AVAILABLE"
STATUS_SOLD == "SOLD"
TRANSACTION_PURCHASE == "PURCHASE"
TRANSACTION_ADMIN_ADD == "ADMIN_ADD"
\* the transaction-type names constants.py binds (lines 6-10); trx.py line 11
\* imports TRANSACTION_REFUND, which is not among them
TransactionTypeNames ==
    {"TRANSACTION_PURCHASE", "TRANSACTION_ADMIN_ADD", "TRANSACTION_ADMIN_REMOVE",
     "TRANSACTION_ADMIN_RESET"}
RATE_DL == 100
RATE_BGL == 10000

\* str.upper() on the strings the model uses
upper(s) ==
    CASE s = "al" -> "AL"
      [] s = "sword" -> "SWORD"
      [] OTHER -> s

\* Balance.total_wls
total_wls(b) == b.wl + (b.dl * RATE_DL) + (b.bgl * RATE_BGL)

\* _normalize with division that truncates toward zero
normalize_truncating(b) ==
    LET t == total_wls(b)
        a == IF t < 0 THEN -t ELSE t
        q == a \div RATE_BGL
        remaining == a % RATE_BGL
    IN  [bgl |-> IF t < 0 THEN -q ELSE q, dl |-> remaining \div RATE_DL,
         wl |-> remaining % RATE_DL]

\* _normalize that stops at the middle denomination
normalize_two_units(b) ==
    LET t == total_wls(b)
    IN  [bgl |-> 0, dl |-> t \div RATE_DL, wl |-> t % RATE_DL]

\* Balance._normalize
normalize(b) ==
    LET t == total_wls(b)
        remaining == t % RATE_BGL
    IN  [bgl |-> t \div RATE_BGL, dl |-> remaining \div RATE_DL, wl |-> remaining % RATE_DL]

\* Balance.__init__ without the call of _normalize
Balance_unnormalized(wl, dl, bgl) == [wl |-> wl, dl |-> dl, bgl |-> bgl]

\* Balance.__init__: stores the three fields, then normalizes
Balance(wl, dl, bgl) == normalize([wl |-> wl, dl |-> dl, bgl |-> bgl])

\* Balance.add: a new object built from the field sums
add(self, other) == Balance(self.wl + other.wl, self.dl + other.dl, self.bgl + other.bgl)

\* subtract whose test compares the wl fields
subtract_by_field(self, other) ==
    LET new_total == total_wls(self) - total_wls(other)
    IN  IF self.wl - other.wl < 0
        THEN [ok |-> FALSE, value |-> self, self |-> self, other |-> other]
        ELSE [ok |-> TRUE, value |-> normalize([wl |-> new_total, dl |-> 0, bgl |-> 0]),
              self |-> self, other |-> other]

\* Balance.subtract: raises BalanceError when the difference of the totals
\* is negative; otherwise a fresh Balance() gets wl = new_total and is
\* normalized.  self and other are returned as the call leaves them.
subtract(self, other) ==
    LET new_total == total_wls(self) - total_wls(other)
    IN  IF new_total < 0
        THEN [ok |-> FALSE, value |-> self, self |-> self, other |-> other]
        ELSE [ok |-> TRUE, value |-> normalize([wl |-> new_total, dl |-> 0, bgl |-> 0]),
              self |-> self, other |-> other]

\* Balance.format: the display string, as its list of "<n> <unit>" parts
format(b) ==
    LET p1 == IF b.bgl > 0 THEN << <<b.bgl, "BGL">> >> ELSE << >>
        p2 == IF b.dl > 0 THEN p1 \o << <<b.dl, "DL">> >> ELSE p1
    IN  IF b.wl > 0 \/ p2 = << >> THEN p2 \o << <<b.wl, "WL">> >> ELSE p2

\* str(n) of a bare integer: one part without a unit
str(n) == << <<n, "">> >>

(***************************************************************************)
(* database.py: schema                                                     *)
(***************************************************************************)
\* stock.status CHECK (status IN ('available', 'sold', 'deleted'))
StockStatusCheck == {"available", "sold", "deleted"}
\* stock.status DEFAULT 'available'
StockStatusDefault == "available"
\* tables created by setup_database
Tables == {"users", "user_growid", "products", "stock", "transactions", "world_info"}

\* the store and the cache as one value, so that methods compose
Store == [users |-> users, user_growid |-> user_growid, cache |-> cache,
          products |-> products, stock |-> stock, stock_seq |-> stock_seq,
          transactions |-> transactions]

\* a table without rows
Empty == [x \in {} |-> TRUE]

\* a table with one row added or replaced
Put(f, k, v) == [x \in DOMAIN f \cup {k} |-> IF x = k THEN v ELSE f[x]]
\* a table without the row of key k
Drop(f, k) == [x \in DOMAIN f \ {k} |-> f[x]]

(***************************************************************************)
(* database.py: get_connection                                             *)
(***************************************************************************)
Callers == {1, 2}

\* a call of get_connection(max_retries) before its first attempt: attempt
\* is the loop variable, outcomes the result of each attempt made so far
StartConn(max_retries) ==
    [max_retries |-> max_retries, attempt |-> 0, outcomes |-> << >>, result |-> "running"]

\* get_connection whose last-attempt test is off by one
connect_attempt_off_by_one(call, ok) ==
    LET made == [call EXCEPT !.outcomes = Append(@, ok)]
    IN  IF ok
        THEN [made EXCEPT !.result = "returned"]
        ELSE IF call.attempt = call.max_retries
             THEN [made EXCEPT !.result = "raised"]
             ELSE IF call.attempt + 1 < call.max_retries
                  THEN [made EXCEPT !.attempt = @ + 1]
                  ELSE [made EXCEPT !.result = "none"]

\* one pass of the loop of lines 11-28: connect and set the pragmas (ok), or
\* sqlite3.Error; on the last attempt the error is raised, otherwise the
\* loop sleeps and goes on; a loop that ends without return yields None
connect_attempt(call, ok) ==
    LET made == [call EXCEPT !.outcomes = Append(@, ok)]
    IN  IF ok
        THEN [made EXCEPT !.result = "returned"]
        ELSE IF call.attempt = call.max_retries - 1
             THEN [made EXCEPT !.result = "raised"]
             ELSE IF call.attempt + 1 < call.max_retries
                  THEN [made EXCEPT !.attempt = @ + 1]
                  ELSE [made EXCEPT !.result = "none"]

(***************************************************************************)
(* balance_manager.py: BalanceManagerService                               *)
(***************************************************************************)
\* clear_cache(growid): one key, or everything when growid is None
clear_cache(st, growid) == [st EXCEPT !.cache = Drop(st.cache, growid)]
clear_cache_all(st) == [st EXCEPT !.cache = Empty]

\* register_user: INSERT OR IGNORE users, INSERT OR REPLACE user_growid,
\* commit, clear the cache entry of the upper-cased handle, return True
\* register_user with INSERT OR REPLACE INTO users in place of OR IGNORE
register_user_replacing(st, discord_id, growid) ==
    LET g == upper(growid)
        s1 == [st EXCEPT !.users = Put(st.users, g, Balance(0, 0, 0)),
                         !.user_growid = Put(st.user_growid, discord_id, g)]
    IN  [st |-> clear_cache(s1, g), ret |-> TRUE]

\* register_user without the INSERT OR IGNORE INTO users
register_user_mapping_only(st, discord_id, growid) ==
    LET g == upper(growid)
        s1 == [st EXCEPT !.user_growid = Put(st.user_growid, discord_id, g)]
    IN  [st |-> clear_cache(s1, g), ret |-> TRUE]

register_user(st, discord_id, growid) ==
    LET g == upper(growid)
        u == IF g \in DOMAIN st.users THEN st.users ELSE Put(st.users, g, Balance(0, 0, 0))
        s1 == [st EXCEPT !.users = u, !.user_growid = Put(st.user_growid, discord_id, g)]
    IN  [st |-> clear_cache(s1, g), ret |-> TRUE]

\* get_growid
get_growid(st, discord_id) ==
    IF discord_id \in DOMAIN st.user_growid THEN <<st.user_growid[discord_id]>> ELSE << >>

\* get_balance: cache hit on the key as passed, else read the row of the
\* upper-cased handle and cache it under the key as passed.
\* found = FALSE is the None result.
get_balance(st, growid) ==
    IF growid \in DOMAIN st.cache
    THEN [st |-> st, found |-> TRUE, balance |-> st.cache[growid]]
    ELSE IF upper(growid) \in DOMAIN st.users
         THEN LET b == Balance(st.users[upper(growid)].wl, st.users[upper(growid)].dl,
                               st.users[upper(growid)].bgl)
              IN  [st |-> [st EXCEPT !.cache = Put(st.cache, growid, b)],
                   found |-> TRUE, balance |-> b]
         ELSE [st |-> st, found |-> FALSE, balance |-> Balance(0, 0, 0)]

\* update_balance without the test of the new total
update_balance_unchecked(st, growid, wl, dl, bgl, transaction_type) ==
    LET g == upper(growid) IN
    IF g \notin DOMAIN st.users
    THEN [st |-> st, ok |-> FALSE, err |-> "User not found", balance |-> Balance(0, 0, 0)]
    ELSE LET row == st.users[g]
             old_balance == Balance(row.wl, row.dl, row.bgl)
             new_balance == Balance(old_balance.wl + wl, old_balance.dl + dl, old_balance.bgl + bgl)
             rec == [growid |-> g, type |-> transaction_type,
                     old_balance |-> format(old_balance), new_balance |-> format(new_balance),
                     items_count |-> 0, total_price |-> 0]
         IN  [st |-> [st EXCEPT !.users = Put(st.users, g, new_balance),
                                !.transactions = Append(st.transactions, rec),
                                !.cache = Put(st.cache, growid, new_balance)],
              ok |-> TRUE, err |-> "", balance |-> new_balance]

\* update_balance that takes the current balance from the cache when it has one
update_balance_cached(st, growid, wl, dl, bgl, transaction_type) ==
    LET g == upper(growid) IN
    IF g \notin DOMAIN st.users
    THEN [st |-> st, ok |-> FALSE, err |-> "User not found", balance |-> Balance(0, 0, 0)]
    ELSE LET row == IF growid \in DOMAIN st.cache THEN st.cache[growid] ELSE st.users[g]
             old_balance == Balance(row.wl, row.dl, row.bgl)
             new_balance == Balance(old_balance.wl + wl, old_balance.dl + dl, old_balance.bgl + bgl)
             rec == [growid |-> g, type |-> transaction_type,
                     old_balance |-> format(old_balance), new_balance |-> format(new_balance),
                     items_count |-> 0, total_price |-> 0]
         IN  IF total_wls(new_balance) < 0
             THEN [st |-> st, ok |-> FALSE, err |-> "Insufficient balance", balance |-> old_balance]
             ELSE [st |-> [st EXCEPT !.users = Put(st.users, g, new_balance),
                                     !.transactions = Append(st.transactions, rec),
                                     !.cache = Put(st.cache, growid, new_balance)],
                   ok |-> TRUE, err |-> "", balance |-> new_balance]

\* update_balance: one store transaction (no await between BEGIN and commit).
\* ok = FALSE is the ValueError; the rollback leaves the store as it was.
update_balance(st, growid, wl, dl, bgl, transaction_type) ==
    LET g == upper(growid) IN
    IF g \notin DOMAIN st.users
    THEN [st |-> st, ok |-> FALSE, err |-> "User not found", balance |-> Balance(0, 0, 0)]
    ELSE LET row == st.users[g]
             old_balance == Balance(row.wl, row.dl, row.bgl)
             new_balance == Balance(old_balance.wl + wl, old_balance.dl + dl, old_balance.bgl + bgl)
             rec == [growid |-> g, type |-> transaction_type,
                     old_balance |-> format(old_balance), new_balance |-> format(new_balance),
                     items_count |-> 0, total_price |-> 0]
         IN  IF total_wls(new_balance) < 0
             THEN [st |-> st, ok |-> FALSE, err |-> "Insufficient balance", balance |-> old_balance]
             ELSE [st |-> [st EXCEPT !.users = Put(st.users, g, new_balance),
                                     !.transactions = Append(st.transactions, rec),
                                     !.cache = Put(st.cache, growid, new_balance)],
                   ok |-> TRUE, err |-> "", balance |-> new_balance]

(***************************************************************************)
(* product_manager.py                                                      *)
(***************************************************************************)
\* create_product_raw below is create_product keyed by the code as passed.
\* create_product: INSERT under the upper-cased code; the primary key
\* rejects an existing code (IntegrityError -> ValueError)
create_product_raw(st, code, price) ==
    IF code \in DOMAIN st.products
    THEN [st |-> st, ok |-> FALSE]
    ELSE [st |-> [st EXCEPT !.products = Put(st.products, code, [price |-> price])],
          ok |-> TRUE]

create_product(st, code, price) ==
    IF upper(code) \in DOMAIN st.products
    THEN [st |-> st, ok |-> FALSE]
    ELSE [st |-> [st EXCEPT !.products = Put(st.products, upper(code), [price |-> price])],
          ok |-> TRUE]

\* get_product(code): lookup by the code as passed
get_product(st, code) == code \in DOMAIN st.products

\* update_product(code, field, value) for the field price: the stored price
\* of the product becomes value
update_product(st, code, value) ==
    [st EXCEPT !.products[code].price = value]

\* admin.py lines 548-597, field = 'price': a value <= 0 is answered with
\* "Price must be positive!", an unknown code with "not found"
edit_product(st, code, value) ==
    IF value <= 0
    THEN [st |-> st, message |-> "Price must be positive!"]
    ELSE IF ~get_product(st, upper(code))
         THEN [st |-> st, message |-> "Product not found!"]
         ELSE [st |-> update_product(st, upper(code), value),
               message |-> "Product Updated"]

\* add_stock for one content line, as process_bulk_stock calls it: the row
\* gets the next AUTOINCREMENT id and the schema's default status; the
\* UNIQUE(content) and the product foreign key reject the insert
add_stock(st, product_code, content, added_by) ==
    IF \/ product_code \notin DOMAIN st.products
       \/ \E i \in DOMAIN st.stock : st.stock[i].content = content
    THEN [st |-> st, ret |-> FALSE]
    ELSE LET id == st.stock_seq + 1
             row == [product_code |-> product_code, content |-> content,
                     status |-> StockStatusDefault, added_by |-> added_by,
                     buyer_id |-> "", seller_id |-> 0]
         IN  [st |-> [st EXCEPT !.stock = Put(st.stock, id, row), !.stock_seq = id],
              ret |-> TRUE]

\* a delete of product code under ON DELETE NO ACTION semantics: rows stay
on_delete_keep(stock_rows, code) == stock_rows

\* FOREIGN KEY (product_code) REFERENCES products(code) ON DELETE CASCADE,
\* with foreign_keys = ON on every connection: the stock rows that remain
\* when the product row of code is deleted
on_delete_cascade(stock_rows, code) ==
    [i \in {j \in DOMAIN stock_rows : stock_rows[j].product_code # code} |-> stock_rows[i]]

\* delete_product(code): DELETE of the product row; true when a row was deleted
delete_product(st, code) ==
    IF code \notin DOMAIN st.products
    THEN [st |-> st, ret |-> FALSE]
    ELSE [st |-> [st EXCEPT !.products = Drop(st.products, code),
                            !.stock = on_delete_cascade(st.stock, code)],
          ret |-> TRUE]

\* admin.py delete_product: lookup under the upper-cased code, confirmation
\* by reaction (or its timeout), then the delete.  The delete acts on the
\* store as it is when the reaction arrives; a product gone by then makes
\* delete_product return False, the same store as a failed lookup.
admin_delete_product(st, code, reaction) ==
    IF ~get_product(st, upper(code))
    THEN [st |-> st, message |-> "not found"]
    ELSE IF reaction = "timeout"
         THEN [st |-> st, message |-> "Operation timed out"]
         ELSE IF reaction = "no"
              THEN [st |-> st, message |-> "Operation cancelled"]
              ELSE LET r == delete_product(st, upper(code))
                   IN  [st |-> r.st,
                        message |-> IF r.ret THEN "Product Deleted"
                                    ELSE "Failed to delete product"]

\* line.split('|')[0].strip(): the part of an upload line before the first bar
content_of(line) ==
    CASE line = "c1|x" -> "c1"
      [] line = "|y" -> ""
      [] OTHER -> line

\* the loop of process_bulk_stock over the lines from position k on: a line
\* without content counts as failed, a line add_stock refuses counts as
\* failed, and the loop goes on
RECURSIVE bulk_lines(_, _, _, _, _)
bulk_lines(st, product_code, lines, author, k) ==
    IF k > Len(lines)
    THEN [st |-> st, successful |-> 0, failed |-> 0]
    ELSE LET content == content_of(lines[k])
             r == IF content = "" THEN [st |-> st, ret |-> FALSE]
                  ELSE add_stock(st, upper(product_code), content, author)
             rest == bulk_lines(r.st, product_code, lines, author, k + 1)
         IN  [st |-> rest.st,
              successful |-> rest.successful + (IF r.ret THEN 1 ELSE 0),
              failed |-> rest.failed + (IF r.ret THEN 0 ELSE 1)]

\* process_bulk_stock that counts every line as added
process_bulk_stock_counting_all(st, product_code, lines, author) ==
    IF ~get_product(st, upper(product_code))
    THEN [st |-> st, ok |-> FALSE, message |-> "Product Not Found", successful |-> 0,
          failed |-> 0]
    ELSE IF lines = << >>
         THEN [st |-> st, ok |-> FALSE, message |-> "Empty File", successful |-> 0,
               failed |-> 0]
         ELSE LET r == bulk_lines(st, product_code, lines, author, 1)
              IN  [st |-> r.st, ok |-> TRUE, message |-> "Stock Processing Complete",
                   successful |-> Len(lines), failed |-> 0]

\* process_bulk_stock that does not look the product up first
process_bulk_stock_unverified(st, product_code, lines, author) ==
    IF lines = << >>
    THEN [st |-> st, ok |-> FALSE, message |-> "Empty File", successful |-> 0, failed |-> 0]
    ELSE LET r == bulk_lines(st, product_code, lines, author, 1)
         IN  [st |-> r.st, ok |-> TRUE, message |-> "Stock Processing Complete",
              successful |-> r.successful, failed |-> r.failed]

\* process_bulk_stock(product_code, attachment, author); lines are the
\* stripped non-empty lines of the attachment
process_bulk_stock(st, product_code, lines, author) ==
    IF ~get_product(st, upper(product_code))
    THEN [st |-> st, ok |-> FALSE, message |-> "Product Not Found", successful |-> 0,
          failed |-> 0]
    ELSE IF lines = << >>
         THEN [st |-> st, ok |-> FALSE, message |-> "Empty File", successful |-> 0,
               failed |-> 0]
         ELSE LET r == bulk_lines(st, product_code, lines, author, 1)
              IN  [st |-> r.st, ok |-> TRUE, message |-> "Stock Processing Complete",
                   successful |-> r.successful, failed |-> r.failed]

\* add_stock(product_code, contents, added_by) as the admin command calls it:
\* one row per content string, the refused ones skipped; returns the count
RECURSIVE add_items(_, _, _, _, _)
add_items(st, product_code, contents, added_by, k) ==
    IF k > Len(contents)
    THEN [st |-> st, count |-> 0]
    ELSE LET r == add_stock(st, upper(product_code), contents[k], added_by)
             rest == add_items(r.st, product_code, contents, added_by, k + 1)
         IN  [st |-> rest.st, count |-> rest.count + (IF r.ret THEN 1 ELSE 0)]

\* admin.py bulk_stock: the product is looked up by the code as typed, the
\* stripped non-empty lines are the items
bulk_stock(st, product_code, items) ==
    IF ~get_product(st, product_code)
    THEN [st |-> st, ok |-> FALSE, message |-> "not found", added_count |-> 0]
    ELSE IF items = << >>
         THEN [st |-> st, ok |-> FALSE, message |-> "No valid items found in file",
               added_count |-> 0]
         ELSE LET r == add_items(st, product_code, items, "admin", 1)
              IN  [st |-> r.st, ok |-> TRUE, message |-> "Stock Added Successfully",
                   added_count |-> r.count]

\* ids of the rows in ascending order (creation order)
RECURSIVE SortedIds(_)
SortedIds(S) ==
    IF S = {} THEN << >>
    ELSE LET m == CHOOSE x \in S : \A y \in S : x <= y
         IN  <<m>> \o SortedIds(S \ {m})

\* the first n elements of a sequence (all of it when n exceeds its length)
Take(s, n) == IF n <= 0 THEN << >> ELSE SubSeq(s, 1, IF n < Len(s) THEN n ELSE Len(s))

\* get_available_stock returning the newest rows first
get_available_stock_newest_first(st, code, quantity) ==
    LET ids == SortedIds({i \in DOMAIN st.stock :
                              /\ st.stock[i].product_code = code
                              /\ st.stock[i].status = "available"})
    IN  Take([k \in 1..Len(ids) |-> ids[Len(ids) + 1 - k]], quantity)

\* get_available_stock(code, quantity): up to quantity available rows of the
\* product, oldest first
get_available_stock(st, code, quantity) ==
    Take(SortedIds({i \in DOMAIN st.stock :
                        /\ st.stock[i].product_code = code
                        /\ st.stock[i].status = "available"}), quantity)

\* mark_stock_used: UPDATE ... SET status = STATUS_SOLD WHERE id = ? AND
\* status = STATUS_AVAILABLE; returns rowcount > 0.  An update the CHECK
\* constraint rejects raises, is rolled back and returns False.
mark_stock_used(st, stock_id, buyer_id, seller_id) ==
    LET matched == /\ stock_id \in DOMAIN st.stock
                   /\ st.stock[stock_id].status = STATUS_AVAILABLE
    IN  IF matched /\ STATUS_SOLD \in StockStatusCheck
        THEN [st |-> [st EXCEPT !.stock[stock_id].status = STATUS_SOLD,
                                !.stock[stock_id].buyer_id = buyer_id,
                                !.stock[stock_id].seller_id = seller_id],
              ret |-> TRUE]
        ELSE [st |-> st, ret |-> FALSE]

(***************************************************************************)
(* trx.py: TransactionManager.process_purchase                             *)
(*                                                                         *)
(* A task is one call of the coroutine.  pc names the awaited call the     *)
(* task executes next; a step runs that call and the code after it up to   *)
(* the next await.  History fields: debited, refunded, recorded, pre_total *)
(* (the stored total before the debit), avail0 and total0 (the available   *)
(* rows of the product and the buyer's stored total when the call began).  *)
(***************************************************************************)
IdleTask ==
    [pc |-> "idle", user_id |-> 0, product_code |-> "", quantity |-> 0, growid |-> "",
     price |-> 0, total_price |-> 0, balance |-> Balance(0, 0, 0),
     available_stock |-> << >>, items |-> << >>,
     success |-> FALSE, raised |-> FALSE, message |-> "",
     debited |-> FALSE, refunded |-> FALSE, recorded |-> FALSE, pre_total |-> 0,
     avail0 |-> 0, total0 |-> 0]

\* return False, message, []
Return(task, message) ==
    [task EXCEPT !.pc = "done", !.success = FALSE, !.message = message, !.items = << >>]

\* lines 156-162: an exception reached the handler; the refund call is awaited
\* only when total_price > 0, otherwise the exception is re-raised at once
Except(task, message) ==
    IF task.total_price > 0
    THEN [task EXCEPT !.pc = "refund", !.message = message]
    ELSE [task EXCEPT !.pc = "done", !.raised = TRUE, !.message = message]

\* the rows of a product the schema calls available
Available(st, code) ==
    {i \in DOMAIN st.stock : /\ st.stock[i].product_code = code
                              /\ st.stock[i].status = StockStatusDefault}

\* the stored total of a handle, 0 without a row
StoredTotal(st, growid) ==
    IF upper(growid) \in DOMAIN st.users THEN total_wls(st.users[upper(growid)]) ELSE 0

\* lines 45-77: product lookup with the count of rows whose status is
\* STATUS_AVAILABLE, stock check, total_price
\* purchase_start without the comparison of the stock count with the quantity
purchase_start_unchecked(st, user_id, product_code, quantity, growid) ==
    LET t0 == [IdleTask EXCEPT !.user_id = user_id, !.product_code = product_code,
                               !.quantity = quantity, !.growid = growid,
                               !.avail0 = Cardinality(Available(st, product_code)),
                               !.total0 = StoredTotal(st, growid)]
    IN  IF product_code \notin DOMAIN st.products
        THEN Return(t0, "Product not found")
        ELSE LET price == st.products[product_code].price
             IN  [t0 EXCEPT !.price = price, !.total_price = price * quantity,
                            !.pc = "get_balance"]

purchase_start(st, user_id, product_code, quantity, growid) ==
    LET t0 == [IdleTask EXCEPT !.user_id = user_id, !.product_code = product_code,
                               !.quantity = quantity, !.growid = growid,
                               !.avail0 = Cardinality(Available(st, product_code)),
                               !.total0 = StoredTotal(st, growid)]
    IN  IF product_code \notin DOMAIN st.products
        THEN Return(t0, "Product not found")
        ELSE LET price == st.products[product_code].price
                 n == Cardinality({i \in DOMAIN st.stock :
                                       /\ st.stock[i].product_code = product_code
                                       /\ st.stock[i].status = STATUS_AVAILABLE})
             IN  IF n < quantity
                 THEN Return([t0 EXCEPT !.price = price], "Insufficient stock")
                 ELSE [t0 EXCEPT !.price = price, !.total_price = price * quantity,
                                 !.pc = "get_balance"]

\* lines 125-154: INSERT the purchase record on the coroutine's own
\* connection (foreign key transactions.growid -> users.growid), commit,
\* return True
record_purchase(st, task) ==
    IF task.growid \notin DOMAIN st.users
    THEN [st |-> st, task |-> Except(task, "FOREIGN KEY constraint failed")]
    ELSE LET rec == [growid |-> task.growid, type |-> TRANSACTION_PURCHASE,
                     old_balance |-> format(task.balance),
                     new_balance |-> str(total_wls(task.balance) - task.total_price),
                     items_count |-> task.quantity, total_price |-> task.total_price]
         IN  [st |-> [st EXCEPT !.transactions = Append(st.transactions, rec)],
              task |-> [task EXCEPT !.pc = "done", !.success = TRUE, !.recorded = TRUE,
                                    !.message = "Successfully purchased"]]

\* step_get_balance that raises when the handle has no balance row
step_get_balance_raising(st, task) ==
    LET r == get_balance(st, task.growid)
    IN  IF ~r.found
        THEN [st |-> r.st, task |-> Except(task, "Could not get your balance")]
        ELSE IF total_wls(r.balance) < task.total_price
             THEN [st |-> r.st,
                   task |-> Return([task EXCEPT !.balance = r.balance], "Insufficient balance")]
             ELSE [st |-> r.st,
                   task |-> [task EXCEPT !.balance = r.balance, !.pc = "get_available_stock"]]

\* step_get_balance that goes on to the debit without the stock fetch
step_get_balance_then_debit(st, task) ==
    LET r == get_balance(st, task.growid)
    IN  IF ~r.found
        THEN [st |-> r.st, task |-> Return(task, "Could not get your balance")]
        ELSE IF total_wls(r.balance) < task.total_price
             THEN [st |-> r.st,
                   task |-> Return([task EXCEPT !.balance = r.balance], "Insufficient balance")]
             ELSE [st |-> r.st,
                   task |-> [task EXCEPT !.balance = r.balance, !.pc = "update_balance"]]

\* lines 80-90
step_get_balance(st, task) ==
    LET r == get_balance(st, task.growid)
    IN  IF ~r.found
        THEN [st |-> r.st, task |-> Return(task, "Could not get your balance")]
        ELSE IF total_wls(r.balance) < task.total_price
             THEN [st |-> r.st,
                   task |-> Return([task EXCEPT !.balance = r.balance], "Insufficient balance")]
             ELSE [st |-> r.st,
                   task |-> [task EXCEPT !.balance = r.balance, !.pc = "get_available_stock"]]

\* lines 92-96
step_get_available_stock(st, task) ==
    LET available_stock == get_available_stock(st, task.product_code, task.quantity)
    IN  IF Len(available_stock) < task.quantity
        THEN [st |-> st, task |-> Return(task, "Stock not available")]
        ELSE [st |-> st,
              task |-> [task EXCEPT !.available_stock = available_stock, !.pc = "update_balance"]]

\* lines 98-113, and lines 125-154 when there is no row to mark
step_update_balance(st, task) ==
    LET r == update_balance(st, task.growid, -task.total_price, 0, 0, TRANSACTION_PURCHASE)
        t1 == [task EXCEPT !.debited = TRUE,
                           !.pre_total = total_wls(r.balance) + task.total_price]
    IN  IF ~r.ok
        THEN [st |-> r.st, task |-> Return(task, r.err)]
        ELSE IF task.available_stock = << >>
             THEN record_purchase(r.st, t1)
             ELSE [st |-> r.st, task |-> [t1 EXCEPT !.pc = "mark_stock_used"]]

\* lines 115-123 for the next reserved row, and lines 125-154 after the last
step_mark_stock_used(st, task) ==
    LET id == task.available_stock[Len(task.items) + 1]
        r == mark_stock_used(st, id, task.growid, task.user_id)
    IN  IF ~r.ret
        THEN [st |-> r.st, task |-> Except(task, "Failed to mark stock as used")]
        ELSE LET t1 == [task EXCEPT !.items = Append(task.items, st.stock[id].content)]
             IN  IF Len(t1.items) = Len(task.available_stock)
                 THEN record_purchase(r.st, t1)
                 ELSE [st |-> r.st, task |-> t1]

\* step_refund with the transaction type of line 167 bound to a value
step_refund_bound(st, task) ==
    LET r == update_balance(st, task.growid, task.total_price, 0, 0, "REFUND")
    IN  [st |-> r.st,
         task |-> [task EXCEPT !.pc = "done", !.raised = TRUE, !.refunded = r.ok]]

\* step_refund that starts the call over at the balance read when the refund
\* was not credited
step_refund_resuming(st, task) ==
    IF "TRANSACTION_REFUND" \in TransactionTypeNames
    THEN LET r == update_balance(st, task.growid, task.total_price, 0, 0, "REFUND")
         IN  [st |-> r.st,
              task |-> IF r.ok
                       THEN [task EXCEPT !.pc = "done", !.raised = TRUE, !.refunded = TRUE]
                       ELSE [task EXCEPT !.pc = "get_balance"]]
    ELSE [st |-> st, task |-> [task EXCEPT !.pc = "get_balance"]]

\* lines 160-172: the refund call; its failure is only logged; re-raise
\* The argument transaction_type=TRANSACTION_REFUND (line 167) names a
\* constant with no binding: evaluating it raises before update_balance is
\* called, and the handler of lines 169-170 logs that and goes on to raise.
step_refund(st, task) ==
    IF "TRANSACTION_REFUND" \in TransactionTypeNames
    THEN LET r == update_balance(st, task.growid, task.total_price, 0, 0, "REFUND")
         IN  [st |-> r.st,
              task |-> [task EXCEPT !.pc = "done", !.raised = TRUE, !.refunded = r.ok]]
    ELSE [st |-> st,
          task |-> [task EXCEPT !.pc = "done", !.raised = TRUE, !.refunded = FALSE]]

\* one step of the coroutine
process_purchase(st, task) ==
    CASE task.pc = "get_balance" -> step_get_balance(st, task)
      [] task.pc = "get_available_stock" -> step_get_available_stock(st, task)
      [] task.pc = "update_balance" -> step_update_balance(st, task)
      [] task.pc = "mark_stock_used" -> step_mark_stock_used(st, task)
      [] task.pc = "refund" -> step_refund(st, task)

Running == {"get_balance", "get_available_stock", "update_balance", "mark_stock_used", "refund"}

\* the call run to its end with nothing interleaved
RECURSIVE run(_, _)
run(st, task) ==
    IF task.pc \in Running
    THEN LET r == process_purchase(st, task) IN run(r.st, r.task)
    ELSE [st |-> st, task |-> task]

run_purchase(st, user_id, product_code, quantity, growid) ==
    run(st, purchase_start(st, user_id, product_code, quantity, growid))

\* The awaited reads open a connection of their own (get_connection raises
\* once its retries are used up, and get_balance re-raises what it catches,
\* balance_manager.py lines 134-136); a balance found in the cache is
\* returned without touching the store.
StoreReads == {"get_balance", "get_available_stock"}

store_error_possible(st, task) ==
    /\ task.pc \in StoreReads
    /\ task.pc = "get_balance" => task.growid \notin DOMAIN st.cache

\* the exception of a failed read reaches the handler of lines 156-172
store_error(task) == Except(task, "database is locked")

\* the call run up to the awaited read `at`, the read failing there, and the
\* handler run to its end
RECURSIVE run_until(_, _, _)
run_until(st, task, at) ==
    IF task.pc \in Running /\ task.pc # at
    THEN LET r == process_purchase(st, task) IN run_until(r.st, r.task, at)
    ELSE [st |-> st, task |-> task]

run_with_error(st, user_id, product_code, quantity, growid, at) ==
    LET r == run_until(st, purchase_start(st, user_id, product_code, quantity, growid), at)
    IN  IF store_error_possible(r.st, r.task)
        THEN run(r.st, store_error(r.task))
        ELSE run(r.st, r.task)

(***************************************************************************)
(* live.py: BuyModal.on_submit                                             *)
(***************************************************************************)
\* lines 61-149.  The call of lines 89-93 passes user id, product code and
\* quantity to a method that takes growid as a fourth required argument:
\* the call raises TypeError before the method body runs, and the handler
\* of lines 138-149 answers with the error message.
on_submit(st, user_id, product_code, quantity) ==
    IF get_growid(st, user_id) = << >>
    THEN [st |-> st, message |-> "Please set your GrowID first!"]
    ELSE IF quantity <= 0 \/ quantity > 100
         THEN [st |-> st, message |-> "Quantity must be between 1 and 100."]
         ELSE IF ~get_product(st, upper(product_code))
              THEN [st |-> st, message |-> "Product not found."]
              ELSE [st |-> st, message |-> "An error occurred during purchase."]

(***************************************************************************)
(* admin.py: AdminCog.reset_user                                           *)
(***************************************************************************)
IdleReset ==
    [pc |-> "idle", growid |-> "", current_balance |-> Balance(0, 0, 0), message |-> ""]

\* lines 320-344: the handle is upper-cased, the balance is read and shown
\* in the confirmation prompt, and the command waits for a reaction
reset_user_start(st, growid) ==
    LET g == upper(growid)
        r == get_balance(st, g)
    IN  IF ~r.found
        THEN [st |-> r.st,
              cmd |-> [IdleReset EXCEPT !.pc = "done", !.growid = g,
                                        !.message = "User not found!"]]
        ELSE [st |-> r.st,
              cmd |-> [IdleReset EXCEPT !.pc = "confirm", !.growid = g,
                                        !.current_balance = r.balance]]

\* lines 345-378: the reaction, then update_balance with the negated fields
\* of the balance read before the prompt; an exception of update_balance is
\* answered with an error message
reset_user_confirm(st, cmd, reaction) ==
    IF reaction = "timeout"
    THEN [st |-> st, ok |-> FALSE,
          cmd |-> [cmd EXCEPT !.pc = "done", !.message = "Operation timed out!"]]
    ELSE IF reaction = "no"
         THEN [st |-> st, ok |-> FALSE,
               cmd |-> [cmd EXCEPT !.pc = "done", !.message = "Operation cancelled!"]]
         ELSE LET b == cmd.current_balance
                  r == update_balance(st, cmd.growid, -b.wl, -b.dl, -b.bgl, "ADMIN_RESET")
              IN  [st |-> r.st, ok |-> r.ok,
                   cmd |-> [cmd EXCEPT !.pc = "done",
                                       !.message = IF r.ok THEN "Balance Reset"
                                                   ELSE "Error"]]

(***************************************************************************)
(* donate.py: DonateHandler.process_donation                               *)
(***************************************************************************)
\* The balance row is read and rewritten, then the audit row is inserted
\* into transaction_log, a table setup_database does not create: the
\* statement raises, the handler rolls the connection back and re-raises.
\* process_donation with the audit table present: the balance write commits
process_donation_committed(st, growid, wl, dl, bgl) ==
    LET current == IF growid \in DOMAIN st.users
                   THEN Balance(st.users[growid].wl, st.users[growid].dl, st.users[growid].bgl)
                   ELSE Balance(0, 0, 0)
        new_balance == Balance(current.wl + wl, current.dl + dl, current.bgl + bgl)
    IN  [st |-> [st EXCEPT !.users = Put(st.users, growid, new_balance)], ok |-> TRUE]

process_donation(st, growid, wl, dl, bgl) ==
    LET current == IF growid \in DOMAIN st.users
                   THEN Balance(st.users[growid].wl, st.users[growid].dl, st.users[growid].bgl)
                   ELSE Balance(0, 0, 0)
        new_balance == Balance(current.wl + wl, current.dl + dl, current.bgl + bgl)
        written == [st EXCEPT !.users = Put(st.users, growid, new_balance)]
    IN  IF "transaction_log" \in Tables
        THEN [st |-> written, ok |-> TRUE]
        ELSE [st |-> st, ok |-> FALSE]

(***************************************************************************)
(* The state machine                                                       *)
(***************************************************************************)
Handles == {upper(g) : g \in GrowIds}

\* no Balance method called yet, on two zero balances;
\* every caller at the start of get_connection with the default max_retries
IdleCalc ==
    [self |-> [wl |-> 0, dl |-> 0, bgl |-> 0], other |-> [wl |-> 0, dl |-> 0, bgl |-> 0],
     op |-> "new", ok |-> TRUE, value |-> [wl |-> 0, dl |-> 0, bgl |-> 0]]

Init ==
    /\ users = Empty
    /\ user_growid = Empty
    /\ products = Empty
    /\ stock = Empty
    /\ stock_seq = 0
    /\ transactions = << >>
    /\ cache = Empty
    /\ tasks = [t \in Tasks |-> IdleTask]
    /\ reported = [h \in Handles |-> 0]
    /\ calc = IdleCalc
    /\ conns = [c \in Callers |-> StartConn(MaxRetries)]
    /\ reset = IdleReset

\* the store after a call
Commit(st) ==
    /\ users' = st.users
    /\ user_growid' = st.user_growid
    /\ products' = st.products
    /\ stock' = st.stock
    /\ stock_seq' = st.stock_seq
    /\ transactions' = st.transactions
    /\ cache' = st.cache
    /\ calc' = calc
    /\ conns' = conns
    /\ reset' = reset

\* the bounds every step respects
WithinBounds(st) ==
    /\ Len(st.transactions) <= MaxTx
    /\ \A h \in DOMAIN st.users : total_wls(st.users[h]) <= MaxTotal
    /\ st.stock_seq <= MaxStock

\* reported, after an update_balance call for growid with total delta d
Report(growid, ok, d) ==
    IF ok THEN [reported EXCEPT ![upper(growid)] = @ + d] ELSE reported

DeltaTotal(d) == total_wls([wl |-> d[1], dl |-> d[2], bgl |-> d[3]])

RegisterUser(d, g) ==
    LET r == register_user(Store, d, g)
    IN  /\ Commit(r.st)
        /\ UNCHANGED <<tasks, reported>>

GetBalance(g) ==
    LET r == get_balance(Store, g)
    IN  /\ Commit(r.st)
        /\ UNCHANGED <<tasks, reported>>

ClearCache ==
    /\ Commit(clear_cache_all(Store))
    /\ UNCHANGED <<tasks, reported>>

UpdateBalance(g, d) ==
    LET r == update_balance(Store, g, d[1], d[2], d[3], "UPDATE")
    IN  /\ WithinBounds(r.st)
        /\ Commit(r.st)
        /\ reported' = Report(g, r.ok, DeltaTotal(d))
        /\ UNCHANGED tasks

Donation(g, d) ==
    LET r == process_donation(Store, g, d[1], d[2], d[3])
    IN  /\ WithinBounds(r.st)
        /\ Commit(r.st)
        /\ UNCHANGED <<tasks, reported>>

CreateProduct(c, p) ==
    LET r == create_product(Store, c, p)
    IN  /\ Commit(r.st)
        /\ UNCHANGED <<tasks, reported>>

AddStock(c, content) ==
    LET r == add_stock(Store, c, content, "admin")
    IN  /\ WithinBounds(r.st)
        /\ Commit(r.st)
        /\ UNCHANGED <<tasks, reported>>

MarkStockUsed(id, buyer_id, seller_id) ==
    LET r == mark_stock_used(Store, id, buyer_id, seller_id)
    IN  /\ Commit(r.st)
        /\ UNCHANGED <<tasks, reported>>

PurchaseStart(t, user_id, product_code, quantity, growid) ==
    /\ tasks[t].pc = "idle"
    /\ \A u \in Tasks : u < t => tasks[u].pc # "idle"
    /\ tasks' = [tasks EXCEPT ![t] = purchase_start(Store, user_id, product_code, quantity, growid)]
    /\ UNCHANGED <<users, user_growid, products, stock, stock_seq, transactions, cache,
                   reported, calc, conns, reset>>

BuySubmit(user_id, product_code, quantity) ==
    /\ Commit(on_submit(Store, user_id, product_code, quantity).st)
    /\ UNCHANGED <<tasks, reported>>

\* the event loop resumes task t: the awaited call and the code up to the
\* next await, return or raise
Resume(t) ==
    /\ tasks[t].pc \in Running
    /\ \E r \in {process_purchase(Store, tasks[t])} :
       LET pc == tasks[t].pc
       IN  /\ Commit(r.st)
           /\ tasks' = [tasks EXCEPT ![t] = r.task]
           /\ reported' =
                  CASE pc = "update_balance" ->
                           Report(tasks[t].growid, r.task.debited, -tasks[t].total_price)
                    [] pc = "refund" ->
                           Report(tasks[t].growid, r.task.refunded, tasks[t].total_price)
                    [] OTHER -> reported

PurchaseStep(t) ==
    /\ tasks[t].pc \in Running
    /\ WithinBounds(process_purchase(Store, tasks[t]).st)
    /\ Resume(t)

\* the balance ledger alone: registration, reads, updates, cache resets and
\* the donation endpoint
NextLedger ==
    \/ \E d \in DiscordIds, g \in GrowIds : RegisterUser(d, g)
    \/ \E g \in GrowIds : GetBalance(g)
    \/ ClearCache
    \/ \E g \in GrowIds, d \in Deltas : UpdateBalance(g, d)
    \/ \E g \in GrowIds, d \in Deltas : Donation(g, d)

SpecLedger == Init /\ [][NextLedger]_vars

\* the shop: catalog, stock and purchases of registered buyers
NextShop ==
    \/ \E d \in DiscordIds : RegisterUser(d, Buyer[d])
    \/ \E d \in DiscordIds : UpdateBalance(Buyer[d], Credit)
    \/ \E p \in Prices : CreateProduct(Sword, p)
    \/ \E x \in Contents : AddStock(Sword, x)
    \/ \E i \in 1..MaxStock, d \in DiscordIds : MarkStockUsed(i, Buyer[d], d)
    \/ \E t \in Tasks, q \in Quantities, g \in GrowIds : PurchaseStart(t, t, Sword, q, g)
    \/ \E t \in Tasks : PurchaseStep(t)
    \/ \E d \in DiscordIds : BuySubmit(d, Sword, 1)

SpecShop == Init /\ [][NextShop]_vars

\* an awaited read of task t fails
StoreError(t) ==
    /\ store_error_possible(Store, tasks[t])
    /\ tasks' = [tasks EXCEPT ![t] = store_error(tasks[t])]
    /\ UNCHANGED <<users, user_growid, products, stock, stock_seq, transactions, cache,
                   reported, calc, conns, reset>>

\* the shop with reads that can fail
FaultyQuantities == {-1, 1}
FaultyGrowIds == {"AL", "al"}

NextFaulty ==
    \/ \E d \in DiscordIds : RegisterUser(d, Buyer[d])
    \/ \E d \in DiscordIds : UpdateBalance(Buyer[d], Credit)
    \/ \E p \in Prices : CreateProduct(Sword, p)
    \/ \E x \in Contents : AddStock(Sword, x)
    \/ \E t \in Tasks, q \in FaultyQuantities, g \in FaultyGrowIds :
           PurchaseStart(t, t, Sword, q, g)
    \/ \E t \in Tasks : PurchaseStep(t)
    \/ \E t \in Tasks : StoreError(t)

SpecFaulty == Init /\ [][NextFaulty]_vars

\* funded buyers and a product with several stock rows
StockContents == {"c1", "c2"}

NextStock ==
    \/ \E d \in DiscordIds : RegisterUser(d, Buyer[d])
    \/ \E d \in DiscordIds : UpdateBalance(Buyer[d], Credit)
    \/ CreateProduct(Sword, 100)
    \/ \E x \in StockContents : AddStock(Sword, x)
    \/ \E i \in 1..MaxStock, d \in DiscordIds : MarkStockUsed(i, Buyer[d], d)

SpecStock == Init /\ [][NextStock]_vars

\* purchases under an event loop that resumes every task that can go on
NextFair ==
    \/ RegisterUser(1, Buyer[1])
    \/ UpdateBalance(Buyer[1], Credit)
    \/ CreateProduct(Sword, -100)
    \/ \E t \in Tasks, q \in FaultyQuantities, g \in FaultyGrowIds :
           PurchaseStart(t, t, Sword, q, g)
    \/ \E t \in Tasks : Resume(t)
    \/ \E t \in Tasks : StoreError(t)

\* Weak fairness of Resume(t), WF_vars(Resume(t)), with the enabling condition
\* written out: every step of a running call changes its record (each branch
\* of process_purchase sets another pc or appends to items), so
\* <<Resume(t)>>_vars is enabled exactly when the call stands at an await.
Scheduled(t) ==
    \/ []<>(tasks[t].pc \notin Running)
    \/ []<><<Resume(t)>>_vars

SpecFair == Init /\ [][NextFair]_vars /\ \A t \in Tasks : Scheduled(t)

\* the catalog and the stock uploads
CatalogCodes == {"SWORD", "sword", "AXE"}
Lines == {"c1", "c1|x", "c2", "|y"}
Batches == UNION {[1..n -> Lines] : n \in 0..MaxBatch}

BulkStock(c, lines) ==
    LET r == process_bulk_stock(Store, c, lines, "admin")
    IN  /\ WithinBounds(r.st)
        /\ Commit(r.st)
        /\ UNCHANGED <<tasks, reported>>

AdminBulkStock(c, items) ==
    LET r == bulk_stock(Store, c, items)
    IN  /\ WithinBounds(r.st)
        /\ Commit(r.st)
        /\ UNCHANGED <<tasks, reported>>

Reactions == {"yes", "no", "timeout"}

DeleteProduct(c, reaction) ==
    /\ Commit(admin_delete_product(Store, c, reaction).st)
    /\ UNCHANGED <<tasks, reported>>

EditPrices == {50, 0}

EditProduct(c, v) ==
    /\ Commit(edit_product(Store, c, v).st)
    /\ UNCHANGED <<tasks, reported>>

NextCatalog ==
    \/ \E c \in CatalogCodes, p \in Prices : CreateProduct(c, p)
    \/ \E c \in CatalogCodes, v \in EditPrices : EditProduct(c, v)
    \/ \E c \in CatalogCodes, reaction \in Reactions : DeleteProduct(c, reaction)
    \/ \E c \in CatalogCodes, lines \in Batches : BulkStock(c, lines)
    \/ \E c \in CatalogCodes, items \in Batches : AdminBulkStock(c, items)
SpecCatalog == Init /\ [][NextCatalog]_vars

\* the resetuser command next to other balance updates
ResetStart(g) ==
    /\ reset.pc \in {"idle", "done"}
    /\ LET r == reset_user_start(Store, g)
       IN  /\ users' = r.st.users
           /\ user_growid' = r.st.user_growid
           /\ transactions' = r.st.transactions
           /\ cache' = r.st.cache
           /\ reset' = r.cmd
    /\ UNCHANGED <<products, stock, stock_seq, tasks, reported, calc, conns>>

ResetConfirm(reaction) ==
    /\ reset.pc = "confirm"
    /\ LET r == reset_user_confirm(Store, reset, reaction)
       IN  /\ WithinBounds(r.st)
           /\ users' = r.st.users
           /\ user_growid' = r.st.user_growid
           /\ transactions' = r.st.transactions
           /\ cache' = r.st.cache
           /\ reset' = r.cmd
           /\ reported' = Report(reset.growid, r.ok, -total_wls(reset.current_balance))
    /\ UNCHANGED <<products, stock, stock_seq, tasks, calc, conns>>

NextReset ==
    \/ \E d \in DiscordIds : RegisterUser(d, Buyer[d])
    \/ \E d \in DiscordIds, x \in Deltas : UpdateBalance(Buyer[d], x)
    \/ \E g \in GrowIds : ResetStart(g)
    \/ \E reaction \in Reactions : ResetConfirm(reaction)

SpecReset == Init /\ [][NextReset]_vars

(***************************************************************************)
(* The Balance value type on its own: two objects with fields drawn from   *)
(* the input sets, and one method call on them                             *)
(***************************************************************************)
WlValues == (-MaxUnit..MaxUnit) \cup {-150, 50, 150, 10050}
DlValues == (-1..MaxUnit) \cup {100}
BglValues == {-1, 0, 1}
SelfValues == [wl : WlValues, dl : DlValues, bgl : BglValues]
OtherValues == [wl : {-1, 0, 50, 150}, dl : {0, 1}, bgl : {0, 1}]

InitBalance ==
    /\ users = Empty
    /\ user_growid = Empty
    /\ products = Empty
    /\ stock = Empty
    /\ stock_seq = 0
    /\ transactions = << >>
    /\ cache = Empty
    /\ tasks = [t \in Tasks |-> IdleTask]
    /\ reported = [h \in Handles |-> 0]
    /\ conns = [c \in Callers |-> StartConn(MaxRetries)]
    /\ reset = IdleReset
    /\ calc \in {[IdleCalc EXCEPT !.self = a, !.other = b, !.value = a] :
                     a \in SelfValues, b \in OtherValues}

StoreUnchanged ==
    UNCHANGED <<users, user_growid, products, stock, stock_seq, transactions, cache, tasks,
                reported, conns, reset>>

\* self._normalize()
Normalize ==
    /\ calc.op \in {"new", "normalize"}
    /\ calc' = [calc EXCEPT !.op = "normalize", !.value = normalize(calc.value),
                            !.self = normalize(calc.value)]
    /\ StoreUnchanged

\* self.add(other)
Add ==
    /\ calc.op = "new"
    /\ calc' = [calc EXCEPT !.op = "add", !.value = add(calc.self, calc.other)]
    /\ StoreUnchanged

\* self.subtract(other)
Subtract ==
    /\ calc.op = "new"
    /\ LET r == subtract(calc.self, calc.other)
       IN  calc' = [calc EXCEPT !.op = "subtract", !.ok = r.ok, !.value = r.value,
                                !.self = r.self, !.other = r.other]
    /\ StoreUnchanged

NextBalance == Normalize \/ Add \/ Subtract
SpecBalance == InitBalance /\ [][NextBalance]_vars

(***************************************************************************)
(* get_connection on its own: each caller's call with max_retries drawn    *)
(* from 1..MaxRetries, every attempt succeeding or failing                 *)
(***************************************************************************)
InitConnect ==
    /\ users = Empty
    /\ user_growid = Empty
    /\ products = Empty
    /\ stock = Empty
    /\ stock_seq = 0
    /\ transactions = << >>
    /\ cache = Empty
    /\ tasks = [t \in Tasks |-> IdleTask]
    /\ reported = [h \in Handles |-> 0]
    /\ calc = IdleCalc
    /\ conns \in [Callers -> {StartConn(m) : m \in 1..MaxRetries}]
    /\ reset = IdleReset

ConnectAttempt(c, ok) ==
    /\ conns[c].result = "running"
    /\ conns' = [conns EXCEPT ![c] = connect_attempt(conns[c], ok)]
    /\ UNCHANGED <<users, user_growid, products, stock, stock_seq, transactions, cache, tasks,
                   reported, calc, reset>>

NextConnect == \E c \in Callers, ok \in BOOLEAN : ConnectAttempt(c, ok)
SpecConnect == InitConnect /\ [][NextConnect]_vars

(***************************************************************************)
(* Properties of the balance ledger (SpecLedger)                           *)
(***************************************************************************)
\* the records of the transaction log that belong to handle h
RecordsOf(h) == SelectSeq(transactions, LAMBDA r : r.growid = h)

\* C1: every stored balance has a total >= 0, and an update_balance call
\* whose deltas would make the total negative fails and leaves the store
\* as it was.
C1_TotalNeverNegative ==
    /\ \A h \in DOMAIN users : total_wls(users[h]) >= 0
    /\ \A g \in GrowIds, d \in Deltas :
          (upper(g) \in DOMAIN users /\ StoredTotal(Store, g) + DeltaTotal(d) < 0)
          => LET r == update_balance(Store, g, d[1], d[2], d[3], "UPDATE")
             IN  ~r.ok /\ r.st = Store

\* C1 witness: after a credit and a debit a handle holds 50, and a further
\* debit of the input set would take it below zero
C1_Witness ==
    \E h \in DOMAIN users, d \in Deltas :
        /\ Len(RecordsOf(h)) >= 2
        /\ total_wls(users[h]) = 50
        /\ total_wls(users[h]) + DeltaTotal(d) < 0

\* C5: no balance update is lost: the stored total of every handle is the
\* total it was created with (zero) plus the deltas of exactly the
\* update_balance calls that reported success.
C5_NoLostUpdate ==
    \A h \in DOMAIN users : total_wls(users[h]) = reported[h]

\* C5 witness: two updates of one handle succeeded while a stale cache entry
\* for another spelling of the handle exists
C5_Witness ==
    \E g \in GrowIds :
        /\ g # upper(g)
        /\ upper(g) \in DOMAIN users
        /\ Len(RecordsOf(upper(g))) >= 2
        /\ g \in DOMAIN cache
        /\ cache[g] # users[upper(g)]

\* C10: register returns false for a handle already bound to another
\* external identifier and leaves the store as it was, and no two external
\* identifiers are mapped to the same handle.
C10_RegisterRejectsTakenHandle ==
    /\ \A d \in DiscordIds, g \in GrowIds :
          (\E e \in DOMAIN user_growid : e # d /\ user_growid[e] = upper(g))
          => LET r == register_user(Store, d, g)
             IN  ~r.ret /\ r.st.user_growid = user_growid
    /\ \A d, e \in DOMAIN user_growid : d # e => user_growid[d] # user_growid[e]

(***************************************************************************)
(* Properties of the purchase path (SpecShop)                              *)
(***************************************************************************)
\* the rows of a product sold to a buyer
SoldTo(st, code, buyer) ==
    {i \in DOMAIN st.stock : /\ st.stock[i].product_code = code
                              /\ st.stock[i].status = "sold"
                              /\ st.stock[i].buyer_id = buyer}

\* the purchase-type records a call appended to the log of store st0
PurchaseRecordsAdded(st0, st1) ==
    SelectSeq(SubSeq(st1.transactions, Len(st0.transactions) + 1, Len(st1.transactions)),
              LAMBDA r : r.type = TRANSACTION_PURCHASE)

\* C2: a purchase that has ended never leaves the buyer debited by
\* total_price unless exactly the requested quantity of rows was sold to
\* the buyer and the purchase was recorded, or a refund was credited.
C2_NeverLeftDebited ==
    \A t \in Tasks :
        LET k == tasks[t] IN
        (k.pc = "done" /\ k.debited /\ k.total_price > 0)
        => \/ k.success /\ k.recorded /\ Len(k.items) = k.quantity
           \/ k.refunded

\* C3: of two purchases of one unit each by different handles, begun when
\* one row of the product was available and both buyers could pay, exactly
\* one succeeds and the other ends with insufficient stock or with a
\* refunded failure.
C3_LastUnitExactlyOne ==
    LET a == tasks[1]
        b == tasks[2]
        Lost(k) == \/ ~k.success /\ k.message \in {"Insufficient stock", "Stock not available"}
                   \/ k.raised /\ k.refunded
    IN  (/\ a.pc = "done" /\ b.pc = "done"
         /\ a.quantity = 1 /\ b.quantity = 1
         /\ upper(a.growid) # upper(b.growid)
         /\ a.avail0 = 1 /\ b.avail0 = 1
         /\ a.price > 0
         /\ a.total0 >= a.price /\ b.total0 >= b.price)
        => \/ a.success /\ Lost(b)
           \/ b.success /\ Lost(a)

\* C4: mark_used is a compare-and-set on the status: of two calls for one
\* available row the first returns true and stamps its buyer, the second
\* returns false.
C4_MarkUsedOnce ==
    \A i \in DOMAIN stock :
        stock[i].status = StockStatusDefault
        => LET r1 == mark_stock_used(Store, i, Buyer[1], 1)
               r2 == mark_stock_used(r1.st, i, Buyer[2], 2)
           IN  /\ r1.ret /\ ~r2.ret
               /\ r2.st.stock[i].status = "sold"
               /\ r2.st.stock[i].buyer_id = Buyer[1]

\* C6: with nothing interleaved, a purchase of q units of an existing
\* product with at least q available rows by a buyer whose total covers
\* price*q succeeds, lowers the total by price*q and moves exactly q rows
\* from available to sold with the buyer stamped.
C6_PurchaseEffects ==
    \A d \in DiscordIds, q \in 1..MaxStock :
        LET g == Buyer[d] IN
        (/\ Sword \in DOMAIN products
         /\ g \in DOMAIN users
         /\ products[Sword].price > 0
         /\ q <= Cardinality(Available(Store, Sword))
         /\ StoredTotal(Store, g) >= products[Sword].price * q)
        => LET r == run_purchase(Store, d, Sword, q, g)
           IN  /\ r.task.success
               /\ StoredTotal(r.st, g) = StoredTotal(Store, g) - products[Sword].price * q
               /\ Cardinality(Available(r.st, Sword)) = Cardinality(Available(Store, Sword)) - q
               /\ Cardinality(SoldTo(r.st, Sword, g)) = Cardinality(SoldTo(Store, Sword, g)) + q

\* C7: a successful purchase of quantity q adds exactly one record of type
\* purchase, and it carries items_count = q and total_price = price*q.
C7_OnePurchaseRecord ==
    \A d \in DiscordIds, q \in Quantities :
        LET g == Buyer[d]
            r == run_purchase(Store, d, Sword, q, g)
            added == PurchaseRecordsAdded(Store, r.st)
        IN  r.task.success
            => /\ Len(added) = 1
               /\ added[1].items_count = q
               /\ added[1].total_price = r.task.price * q

\* C8: with nothing interleaved, a purchase of more units than the product
\* has available rows fails with insufficient stock: it returns no success,
\* changes no balance, no stock row and writes no record.
C8_InsufficientStock ==
    \A g \in GrowIds, q \in Quantities :
        (Sword \in DOMAIN products /\ q > Cardinality(Available(Store, Sword)))
        => LET r == run_purchase(Store, 1, Sword, q, g)
           IN  /\ r.task.pc = "done" /\ ~r.task.success /\ ~r.task.raised
               /\ r.task.message = "Insufficient stock"
               /\ r.st.users = users
               /\ r.st.stock = stock
               /\ r.st.transactions = transactions

\* C8 witness: a call for two units ended with insufficient stock when the
\* product had one available row and the buyer could have paid for one
C8_Witness ==
    \E t \in Tasks :
        /\ tasks[t].pc = "done"
        /\ tasks[t].quantity = 2
        /\ tasks[t].avail0 = 1
        /\ tasks[t].total0 >= 100
        /\ tasks[t].message = "Insufficient stock"
        /\ Cardinality(Available(Store, Sword)) = 1

\* C9: with nothing interleaved, a purchase the stock covers but whose
\* total price exceeds the buyer's stored total fails with insufficient
\* balance and changes neither the stock nor the balance.
C9_InsufficientBalance ==
    \A d \in DiscordIds, q \in 1..MaxStock :
        LET g == Buyer[d] IN
        (/\ Sword \in DOMAIN products
         /\ g \in DOMAIN users
         /\ q <= Cardinality(Available(Store, Sword))
         /\ products[Sword].price * q > StoredTotal(Store, g))
        => LET r == run_purchase(Store, d, Sword, q, g)
           IN  /\ ~r.task.success
               /\ r.task.message = "Insufficient balance"
               /\ r.st.users = users
               /\ r.st.stock = stock

\* C11: a purchase called with quantity <= 0 fails as an invalid quantity
\* and has no side effect: no balance changes, no stock row changes and no
\* record is written.
C11_InvalidQuantity ==
    \A d \in DiscordIds, q \in {-1, 0} :
        (Sword \in DOMAIN products /\ Buyer[d] \in DOMAIN users)
        => LET r == run_purchase(Store, d, Sword, q, Buyer[d])
           IN  /\ ~r.task.success
               /\ r.task.message = "Invalid quantity"
               /\ r.st.users = users
               /\ r.st.stock = stock
               /\ r.st.transactions = transactions

C13_BalanceChangesRecorded ==
    [][/\ \A h \in DOMAIN users :
             (h \in DOMAIN users' /\ users'[h] # users[h])
             => /\ Len(transactions') = Len(transactions) + 1
                /\ SubSeq(transactions', 1, Len(transactions)) = transactions
                /\ transactions'[Len(transactions')].growid = h
                /\ transactions'[Len(transactions')].old_balance = format(users[h])
                /\ transactions'[Len(transactions')].new_balance = format(users'[h])
       /\ DOMAIN users \subseteq DOMAIN users'
       /\ \A g \in GrowIds, d \in Deltas :
             LET r == update_balance(Store, g, d[1], d[2], d[3], "UPDATE")
             IN  IF r.ok
                 THEN /\ Len(r.st.transactions) = Len(transactions) + 1
                      /\ r.st.users[upper(g)] # users[upper(g)]
                 ELSE r.st = Store]_vars

\* C13 witness: a handle holds a non-zero balance and the last record of its
\* log carries that balance, after an update that changed it
C13_Witness ==
    \E h \in DOMAIN users :
        /\ total_wls(users[h]) > 0
        /\ Len(RecordsOf(h)) >= 2
        /\ RecordsOf(h)[Len(RecordsOf(h))].new_balance = format(users[h])
        /\ RecordsOf(h)[Len(RecordsOf(h))].old_balance # format(users[h])

\* C14: the cache never serves a stale value: for every spelling g of a
\* registered handle, get_balance(g) returns the balance stored for
\* upper(g).
C14_CacheNeverStale ==
    \A g \in GrowIds :
        upper(g) \in DOMAIN users
        => LET r == get_balance(Store, g)
           IN  r.found /\ r.balance = users[upper(g)]

(***************************************************************************)
(* Properties of the Balance value type (SpecBalance)                      *)
(***************************************************************************)
\* C15: normalize is idempotent and keeps the total, for every balance of
\* the input set (negative fields included).
C15_NormalizeIdempotent ==
    \A b \in {calc.self, calc.other, calc.value} :
        /\ normalize(normalize(b)) = normalize(b)
        /\ total_wls(normalize(b)) = total_wls(b)

\* C15 witness: a balance with a negative total was normalized into other
\* fields
C15_Witness ==
    /\ calc.op = "normalize"
    /\ total_wls(calc.value) < 0
    /\ calc.value.wl = 50
    /\ calc.value.bgl = -1

\* C16: a balance with total t >= 0 normalizes to bgl = t div 10000,
\* dl = (t mod 10000) div 100, wl = t mod 100; Balance(wl=150) becomes
\* wl=50, dl=1, bgl=0.
C16_NormalizeGreedy ==
    /\ \A b \in {calc.self, calc.other, calc.value} :
          LET t == total_wls(b) IN
          t >= 0 => normalize(b) = [bgl |-> t \div 10000, dl |-> (t % 10000) \div 100,
                                    wl |-> t % 100]
    /\ Balance(150, 0, 0) = [wl |-> 50, dl |-> 1, bgl |-> 0]

\* C16 witness: a balance above one BGL was normalized
C16_Witness ==
    /\ calc.op = "normalize"
    /\ calc.value = [wl |-> 50, dl |-> 1, bgl |-> 1]

\* C17: subtract fails exactly when total(a) < total(b); otherwise its
\* result is normalized with total(a) - total(b); a and b are as before.
C17_Subtract ==
    LET a == calc.self
        b == calc.other
        r == subtract(a, b)
    IN  /\ ~r.ok <=> total_wls(a) < total_wls(b)
        /\ r.ok => /\ r.value = normalize(r.value)
                    /\ total_wls(r.value) = total_wls(a) - total_wls(b)
        /\ r.self = a /\ r.other = b

\* C17 witness: a subtraction failed although the wl field of a was the
\* larger one
C17_Witness ==
    /\ calc.op = "subtract"
    /\ ~calc.ok
    /\ calc.self.wl > calc.other.wl
    /\ total_wls(calc.self) < total_wls(calc.other)

(***************************************************************************)
(* Properties of the catalog and the stock uploads (SpecCatalog)           *)
(***************************************************************************)
\* the contents of the rows of a store
ContentsOf(st) == {st.stock[i].content : i \in DOMAIN st.stock}

\* the contents a batch of upload lines can add to a store
NewContents(st, lines) ==
    {content_of(lines[k]) : k \in 1..Len(lines)} \ ({""} \cup ContentsOf(st))

\* C18: no two stock rows have the same content, and an upload to an
\* existing product inserts one row per new distinct content, counts every
\* other line as failed without stopping, and reports the number inserted.
C18_UniqueContent ==
    /\ \A i, j \in DOMAIN stock : i # j => stock[i].content # stock[j].content
    /\ \A c \in CatalogCodes, lines \in Batches :
          (upper(c) \in DOMAIN products /\ lines # << >>)
          => LET r == process_bulk_stock(Store, c, lines, "admin")
             IN  /\ r.ok
                 /\ r.successful + r.failed = Len(lines)
                 /\ r.successful = Cardinality(NewContents(Store, lines))
                 /\ r.successful = Cardinality(DOMAIN r.st.stock) - Cardinality(DOMAIN stock)
                 /\ ContentsOf(r.st) = ContentsOf(Store) \cup NewContents(Store, lines)
                 /\ \A i \in DOMAIN stock : r.st.stock[i] = stock[i]

\* C18 witness: the stock holds content c1 and an upload of c1 twice and c2
\* once would add one row and fail one line
C18_Witness ==
    /\ "c1" \in ContentsOf(Store)
    /\ Cardinality(DOMAIN stock) = 1
    /\ \E c \in CatalogCodes :
          LET r == process_bulk_stock(Store, c, <<"c1|x", "c2">>, "admin")
          IN  r.ok /\ r.successful = 1 /\ r.failed = 1

\* C19: an upload for a product code that does not exist fails as product
\* not found and leaves the store as it was, by the service path and by the
\* admin command.
C19_UploadUnknownProduct ==
    \A c \in CatalogCodes, lines \in Batches :
        upper(c) \notin DOMAIN products
        => LET r == process_bulk_stock(Store, c, lines, "admin")
               a == bulk_stock(Store, c, lines)
           IN  /\ ~r.ok /\ r.message = "Product Not Found" /\ r.st = Store
               /\ ~a.ok /\ a.message = "not found" /\ a.st = Store

\* C19 witness: one product exists with a stock row while another code has
\* no product
C19_Witness ==
    /\ stock # Empty
    /\ "AXE" \notin DOMAIN products
    /\ ~process_bulk_stock(Store, "AXE", <<"c2">>, "admin").ok

\* C20: creating a product whose code exists in any letter case fails and
\* leaves the product and the stock as they were; codes are stored
\* upper-cased, one product per case-insensitive code.
C20_DuplicateProduct ==
    /\ \A c \in CatalogCodes, p \in Prices :
          upper(c) \in DOMAIN products
          => LET r == create_product(Store, c, p)
             IN  ~r.ok /\ r.st = Store
    /\ \A c \in DOMAIN products : c = upper(c)
    /\ \A c, e \in DOMAIN products : upper(c) = upper(e) => c = e

\* C20 witness: SWORD exists with price 100 and a stock row, and creating
\* sword with another price is refused
C20_Witness ==
    /\ "SWORD" \in DOMAIN products
    /\ products["SWORD"].price = 100
    /\ \E i \in DOMAIN stock : stock[i].product_code = "SWORD"
    /\ ~create_product(Store, "sword", -100).ok

\* C21: a delete of an existing product returns true and leaves neither the
\* product nor any stock row of it, a delete of an absent code returns
\* false and changes nothing, and every stock row's product code names an
\* existing product.
C21_DeleteCascades ==
    /\ \A i \in DOMAIN stock : stock[i].product_code \in DOMAIN products
    /\ \A c \in CatalogCodes :
          LET code == upper(c)
              r == delete_product(Store, code)
          IN  IF code \in DOMAIN products
              THEN /\ r.ret
                   /\ code \notin DOMAIN r.st.products
                   /\ \A i \in DOMAIN r.st.stock : r.st.stock[i].product_code # code
                   /\ \A i \in DOMAIN stock :
                         stock[i].product_code # code
                         => i \in DOMAIN r.st.stock /\ r.st.stock[i] = stock[i]
              ELSE ~r.ret /\ r.st = Store

\* C21 witness: rows were uploaded to SWORD, SWORD was deleted, and the only
\* rows left are those of AXE
C21_Witness ==
    /\ stock_seq = 2
    /\ Cardinality(DOMAIN stock) = 1
    /\ "SWORD" \notin DOMAIN products
    /\ \A i \in DOMAIN stock : stock[i].product_code = "AXE"

\* the failures process_purchase returns from its validations (lines 65-96)
ValidationFailures ==
    {"Product not found", "Insufficient stock", "Could not get your balance",
     "Insufficient balance", "Stock not available"}

\* C22: a purchase that fails a validation before the debit returns a
\* failure without raising and leaves every balance, every stock row and
\* the transaction log as they were, with no debit and no refund; this
\* covers an unknown product code, a handle without a balance row, and a
\* caller without a handle, whom the modal turns away.
C22_ValidationFailureNoEffect ==
    /\ \A g \in GrowIds, q \in Quantities, c \in {Sword, "AXE"} :
          LET r == run_purchase(Store, 1, c, q, g)
          IN  /\ c \notin DOMAIN products => r.task.message = "Product not found"
              /\ (c \in DOMAIN products /\ upper(g) \notin DOMAIN users)
                 => r.task.message \in {"Insufficient stock", "Could not get your balance"}
              /\ r.task.message \in ValidationFailures
                 => /\ r.task.pc = "done" /\ ~r.task.success /\ ~r.task.raised
                    /\ ~r.task.debited /\ ~r.task.refunded
                    /\ r.st.users = users
                    /\ r.st.stock = stock
                    /\ r.st.transactions = transactions
    /\ \A d \in DiscordIds :
          get_growid(Store, d) = << >>
          => LET m == on_submit(Store, d, Sword, 1)
             IN  m.message = "Please set your GrowID first!" /\ m.st = Store

\* C22 witness: one call ended on the unknown product and one on the
\* missing balance row, and a caller without a handle exists
C22_Witness ==
    /\ \E t, u \in Tasks :
          /\ tasks[t].pc = "done" /\ tasks[t].message = "Product not found"
          /\ tasks[u].pc = "done" /\ tasks[u].message = "Could not get your balance"
    /\ \E d \in DiscordIds : get_growid(Store, d) = << >>
    /\ users # Empty

(***************************************************************************)
(* Properties of get_connection (SpecConnect)                              *)
(***************************************************************************)
\* C23: get_connection makes at most max_retries attempts, returns on the
\* first attempt that succeeds, raises exactly when max_retries attempts
\* all failed, and never ends without a connection.
C23_ConnectRetries ==
    \A c \in Callers :
        LET k == conns[c]
            n == Len(k.outcomes)
        IN  /\ n <= k.max_retries
            /\ \A i \in 1..(n - 1) : ~k.outcomes[i]
            /\ k.result # "none"
            /\ k.result = "returned" <=> (n > 0 /\ k.outcomes[n])
            /\ k.result = "raised" <=> (n = k.max_retries /\ ~k.outcomes[n])
            /\ k.result = "running" <=> (n < k.max_retries /\ (n > 0 => ~k.outcomes[n]))

\* C23 witness: one call returned on its third attempt, another raised
\* after three failures
C23_Witness ==
    /\ conns[1].result = "returned" /\ Len(conns[1].outcomes) = 3
    /\ conns[2].result = "raised" /\ Len(conns[2].outcomes) = 3

RecordWriteFailed(task) ==
    /\ task.pc = "done"
    /\ task.debited
    /\ ~task.recorded
    /\ Len(task.items) = Len(task.available_stock)
    /\ task.message = "FOREIGN KEY constraint failed"

PastBalanceRead(task) ==
    task.pc \in Running \ {"get_balance"}

\* C27: no two purchase calls for the same handle are in flight at the same
\* time: while one call for a handle has read the balance and has not yet
\* reached its outcome, no other call for that handle has read the balance.
C27_PerHandleSerialized ==
    \A t \in Tasks, u \in Tasks :
        (/\ t # u
         /\ PastBalanceRead(tasks[t])
         /\ PastBalanceRead(tasks[u]))
        => upper(tasks[t].growid) # upper(tasks[u].growid)
\* C28: within one purchase call the steps come only in the order product
\* validated, balance read, stock fetched, balance debited, items marked,
\* record written: a call comes to its balance read only from its start with
\* the product found, to its stock fetch only from the balance read, to its
\* debit only from a stock fetch that returned at least quantity rows; the
\* debit is applied only at the debit step, a row is marked only after the
\* debit, and the record is written only after the debit and after every
\* reserved row was marked.
C28_StepOrder ==
    [][\A t \in Tasks :
          LET a == tasks[t]
              b == tasks'[t]
          IN  /\ (b.pc = "get_balance" /\ a.pc # "get_balance")
                  => /\ a.pc = "idle"
                     /\ b.product_code \in DOMAIN products
              /\ (b.pc = "get_available_stock" /\ a.pc # "get_available_stock")
                  => a.pc = "get_balance"
              /\ (b.pc = "update_balance" /\ a.pc # "update_balance")
                  => /\ a.pc = "get_available_stock"
                     /\ Len(b.available_stock) >= b.quantity
              /\ (b.debited /\ ~a.debited) => a.pc = "update_balance"
              /\ (users' # users /\ a.pc \in Running /\ b # a)
                  => a.pc \in {"update_balance", "refund"}
              /\ Len(b.items) > Len(a.items) => /\ a.debited
                                                /\ a.pc = "mark_stock_used"
              /\ (b.recorded /\ ~a.recorded)
                  => /\ b.debited
                     /\ Len(b.items) = Len(b.available_stock)
                     /\ a.pc \in {"update_balance", "mark_stock_used"}]_vars

\* a call went through every step and wrote its record
C28_Witness ==
    \E t \in Tasks :
        /\ tasks[t].pc = "done"
        /\ tasks[t].success
        /\ tasks[t].debited
        /\ tasks[t].recorded
        /\ Len(tasks[t].items) = Len(tasks[t].available_stock)
        /\ \E n \in 1..Len(transactions) :
               /\ transactions[n].type = TRANSACTION_PURCHASE
               /\ transactions[n].items_count = tasks[t].quantity
               /\ transactions[n].growid = tasks[t].growid
\* C29: under fair scheduling every started purchase call comes to an end
\* with exactly one outcome (success, a returned failure, or a raised
\* failure after the refund was tried); the outcome, once reached, does not
\* change; a call in the refund step ends in the next step with the original
\* failure raised, whether or not the refund was credited, and tries no
\* further refund.
C29_Terminates ==
    /\ \A t \in Tasks : (tasks[t].pc \in Running) ~> (tasks[t].pc = "done")
    /\ [][\A t \in Tasks :
              LET a == tasks[t]
                  b == tasks'[t]
              IN  /\ a.pc = "done" => b = a
                  /\ b.pc = "done" => ~(b.success /\ b.raised)
                  /\ (a.pc = "refund" /\ b # a)
                      => /\ b.pc = "done"
                         /\ b.raised
                         /\ ~b.success
                         /\ b.message = a.message]_vars

\* a call ended by raising after its debit and a refund that was tried and
\* not credited
C29_Witness ==
    \E t \in Tasks :
        /\ tasks[t].pc = "done"
        /\ tasks[t].raised
        /\ tasks[t].debited
        /\ tasks[t].total_price > 0
        /\ ~tasks[t].refunded
        /\ tasks[t].message # ""
\* the rows of a product that were added and not yet sold
Unsold(st, code) ==
    {i \in DOMAIN st.stock : /\ st.stock[i].product_code = code
                              /\ st.stock[i].status # STATUS_SOLD}

\* C30: with nothing interleaved, a purchase succeeds whenever the product
\* exists, the quantity is at least 1 and at most the number of rows added
\* to the product and not yet sold, and the buyer's total covers
\* price*quantity; a row as the upload path wrote it is counted by the
\* count of lines 55-63 and is matched by the status condition of
\* mark_stock_used.
C30_PurchaseSucceeds ==
    /\ \A d \in DiscordIds, q \in 1..MaxStock :
           LET g == Buyer[d]
               r == run_purchase(Store, d, Sword, q, g)
           IN  (/\ Sword \in DOMAIN products
                /\ q <= Cardinality(Unsold(Store, Sword))
                /\ g \in DOMAIN users
                /\ StoredTotal(Store, g) >= products[Sword].price * q)
               => r.task.success
    /\ \A i \in DOMAIN stock, d \in DiscordIds :
           stock[i].status = StockStatusDefault
           => /\ stock[i].status = STATUS_AVAILABLE
              /\ mark_stock_used(Store, i, Buyer[d], d).ret
\* C31: a successful purchase of quantity q returns exactly q item contents,
\* pairwise distinct, each the content of a stock row of the requested
\* product that is sold with this buyer stamped; and no content is returned
\* by two successful purchases.
C31_ItemsReturned ==
    /\ \A t \in Tasks :
           (tasks[t].pc = "done" /\ tasks[t].success)
           => /\ Len(tasks[t].items) = tasks[t].quantity
              /\ \A m \in 1..Len(tasks[t].items), n \in 1..Len(tasks[t].items) :
                     m # n => tasks[t].items[m] # tasks[t].items[n]
              /\ \A m \in 1..Len(tasks[t].items) :
                     \E i \in DOMAIN stock :
                         /\ stock[i].content = tasks[t].items[m]
                         /\ stock[i].product_code = tasks[t].product_code
                         /\ stock[i].status = STATUS_SOLD
                         /\ stock[i].buyer_id = tasks[t].growid
    /\ \A t \in Tasks, u \in Tasks :
           (t # u /\ tasks[t].success /\ tasks[u].success)
           => \A m \in 1..Len(tasks[t].items), n \in 1..Len(tasks[u].items) :
                  tasks[t].items[m] # tasks[u].items[n]
\* C32: every stock row's status is one of available, sold, deleted; a row
\* carries a buyer exactly when its status is sold; and for every stored row
\* the status mark_stock_used tests for and the status it writes are values
\* of that set.
C32_StockStatusDomain ==
    \A i \in DOMAIN stock :
        /\ stock[i].status \in StockStatusCheck
        /\ (stock[i].buyer_id # "") <=> (stock[i].status = "sold")
        /\ STATUS_AVAILABLE \in StockStatusCheck
        /\ STATUS_SOLD \in StockStatusCheck
C34_PricePositive ==
    \A c \in DOMAIN products : products[c].price > 0
\* C35: every handle in the identity mapping has a balance row, so the
\* balance read of a registered caller finds one; a balance row appears only
\* in the step that also writes a mapping row for its handle, and it appears
\* with the value zero.
C35_RegisteredHasBalance ==
    /\ [](\A d \in DOMAIN user_growid :
              /\ user_growid[d] \in DOMAIN users
              /\ get_balance(Store, user_growid[d]).found)
    /\ [][\A g \in DOMAIN users' :
              g \notin DOMAIN users
              => /\ users'[g] = Balance(0, 0, 0)
                 /\ \E d \in DOMAIN user_growid' :
                        /\ user_growid'[d] = g
                        /\ d \in DOMAIN user_growid => user_growid[d] # g]_vars

\* a registered identifier whose handle has the zero balance it was created with
C35_Witness ==
    \E d \in DOMAIN user_growid :
        /\ user_growid[d] \in DOMAIN users
        /\ users[user_growid[d]] = Balance(0, 0, 0)
        /\ RecordsOf(user_growid[d]) = << >>
\* C36: register_user for a handle that has a balance row leaves that row,
\* and every other balance row, as it was, whichever identifier registers,
\* and it writes no transaction record.
C36_RegisterKeepsBalance ==
    \A d \in DiscordIds, g \in GrowIds :
        LET r == register_user(Store, d, g)
        IN  /\ r.st.transactions = transactions
            /\ \A h \in DOMAIN users : /\ h \in DOMAIN r.st.users
                                        /\ r.st.users[h] = users[h]

\* a handle with a balance above zero that two identifiers are registered to
C36_Witness ==
    \E d \in DOMAIN user_growid, e \in DOMAIN user_growid :
        /\ d # e
        /\ user_growid[d] = user_growid[e]
        /\ total_wls(users[user_growid[d]]) > 0
        /\ register_user(Store, d, user_growid[d]).st.users = users
\* C37: for each handle, every record of its log has as pre-operation
\* snapshot the post-operation snapshot of the handle's previous record, and
\* the post-operation snapshot of its latest record is the stored balance in
\* the same representation.
C37_LogChain ==
    \A h \in DOMAIN users :
        LET rs == RecordsOf(h)
        IN  /\ \A n \in 2..Len(rs) : rs[n].old_balance = rs[n - 1].new_balance
            /\ Len(rs) > 0 => rs[Len(rs)].new_balance = format(users[h])
\* C38: every stored balance row is in canonical form: 0 <= wl < 100,
\* 0 <= dl < 100 and bgl >= 0.
C38_StoredCanonical ==
    \A h \in DOMAIN users :
        /\ 0 <= users[h].wl /\ users[h].wl < RATE_DL
        /\ 0 <= users[h].dl /\ users[h].dl < RATE_BGL \div RATE_DL
        /\ users[h].bgl >= 0

\* an update of +150 WL was stored as 1 DL and 50 WL
C38_Witness ==
    \E h \in DOMAIN users :
        /\ users[h] = [wl |-> 50, dl |-> 1, bgl |-> 0]
        /\ Len(RecordsOf(h)) > 0
\* C39: a resetuser command that reports success leaves the handle's stored
\* total at exactly 0, whatever balance updates for the handle completed
\* between its balance read and its update.
C39_ResetLeavesZero ==
    [][(/\ reset.pc = "confirm"
        /\ reset'.pc = "done"
        /\ reset'.message = "Balance Reset")
       => total_wls(users'[reset.growid]) = 0]_vars
====
